---- MODULE Spec2Model ----
(***************************************************************************)
(* Model of app.py: the gift-exchange application (participants, wish      *)
(* lists, food registry, cookie session, image upload with local           *)
(* fallback).  The three PostgreSQL tables are sets of rows, the upload    *)
(* folder is a set of files, the session cookie of the requesting browser  *)
(* is `session`, and `resp` is the response of the last request.           *)
(***************************************************************************)
EXTENDS Integers, Sequences, FiniteSets, TLC

VARIABLES
    participants,   \* table participants: rows [id, name, code, gives_to]
    wishes,         \* table wishes: rows [participant_id, wish1, wish1_img, wish2, wish2_img]
    foods,          \* table foods: rows [id, person_name, title, description, image_filename]
    foods_seq,      \* last value handed out by the SERIAL sequence of foods.id
    uploads,        \* files in UPLOAD_FOLDER: [name, content]
    session,        \* session["user_id"] of the browser (NoUser when absent)
    resp,           \* what the last request answered
    reqs            \* in-flight wish-list requests (statement-level interleaving)

vars == <<participants, wishes, foods, foods_seq, uploads, session, resp, reqs>>

-----------------------------------------------------------------------------
(* Values *)

\* Python None / SQL NULL in a text column.
NULL == "<NULL>"

\* session.get("user_id") when the key is absent, and a NULL gives_to: both
\* are tested by truthiness only.
NoUser == 0

\* ALLOWED_EXTENSIONS
ALLOWED_EXTENSIONS == {"png", "jpg", "jpeg", "gif", "webp", "bmp"}

\* The roster literal of init_db, in order.
roster ==
    << [name |-> "Miguel",          code |-> "M123"],
       [name |-> "Mamá",            code |-> "MA45"],
       [name |-> "Papá Luis",       code |-> "PL67"],
       [name |-> "Abuelita María",  code |-> "AM89"],
       [name |-> "Luis Consentido", code |-> "LC11"],
       [name |-> "Daniela",         code |-> "DA22"],
       [name |-> "Efraín",          code |-> "EF33"],
       [name |-> "Karla",           code |-> "KA44"],
       [name |-> "Mariana",         code |-> "MA55"],
       [name |-> "Sandra",          code |-> "SA66"],
       [name |-> "Alejandro",       code |-> "AL77"],
       [name |-> "Brenda",          code |-> "BR88"] >>

\* The name -> name mapping of init_db, in dict order: <<giver, receiver>>.
asignaciones ==
    << <<"Miguel",          "Brenda">>,
       <<"Mamá",            "Abuelita María">>,
       <<"Papá Luis",       "Daniela">>,
       <<"Abuelita María",  "Mariana">>,
       <<"Luis Consentido", "Miguel">>,
       <<"Daniela",         "Mamá">>,
       <<"Efraín",          "Sandra">>,
       <<"Karla",           "Luis Consentido">>,
       <<"Mariana",         "Karla">>,
       <<"Sandra",          "Papá Luis">>,
       <<"Alejandro",       "Efraín">>,
       <<"Brenda",          "Alejandro">> >>

-----------------------------------------------------------------------------
(* String helpers.  TLC strings have no character access, so the helpers    *)
(* are given on the strings the requests of this model carry.               *)

\* str.strip(): the padded form values of the model and what strip() makes
\* of them; a value without surrounding whitespace is returned as it is.
strip(s) ==
    CASE s = " M123 "  -> "M123"
      [] s = "BR88 "   -> "BR88"
      [] s = " libro " -> "libro"
      [] s = " gorro " -> "gorro"
      [] s = " pavo "  -> "pavo"
      [] s = " Ana "   -> "Ana"
      [] s = "   "     -> ""
      [] OTHER         -> s

\* str.lower() on the extensions the model uploads.
lower(s) ==
    CASE s = "PNG" -> "png"
      [] s = "Jpg" -> "jpg"
      [] s = "TXT" -> "txt"
      [] OTHER     -> s

\* An uploaded filename is the sequence of its dot-separated parts:
\* <<"mi foto", "PNG">> is "mi foto.PNG", <<"nota">> is "nota", << >> is ""
\* (an absent file part and an empty filename are both falsy for the code).
RECURSIVE filename_str(_)
filename_str(parts) ==
    IF Len(parts) = 0 THEN ""
    ELSE IF Len(parts) = 1 THEN parts[1]
    ELSE parts[1] \o "." \o filename_str(Tail(parts))

\* allowed_file(filename)
allowed_file(filename) ==
    /\ filename # << >>
    /\ Len(filename) >= 2
    /\ lower(filename[Len(filename)]) \in ALLOWED_EXTENSIONS

\* werkzeug's secure_filename on the names the model uploads: whitespace
\* becomes "_", path separators are dropped.
secure_filename(s) ==
    CASE s = "mi foto.PNG"    -> "mi_foto.PNG"
      [] s = "../mi foto.PNG" -> "mi_foto.PNG"
      [] OTHER                -> s

-----------------------------------------------------------------------------
(* Image upload *)

\* result.get("secure_url") of a Cloudinary upload into `folder`: an https
\* URL chosen by the service.
secure_url(folder) == "https://res.cloudinary.com/demo/image/upload/" \o folder

\* The folders the handlers upload into.
wish_folder(name) == "intercambio-navidad/deseos/" \o name
food_folder(person_name) == "intercambio-navidad/comidas/" \o person_name

\* upload_to_cloudinary(file_storage, folder).  cloud = "ok": CLOUDINARY_URL
\* is set and the upload answers a secure_url; cloud = "fail": it is not
\* set, or the upload raised (caught, logged), or answered no secure_url.
upload_to_cloudinary(folder, cloud) ==
    IF cloud = "ok" THEN secure_url(folder) ELSE NULL

\* file.save(os.path.join(UPLOAD_FOLDER, name)): creates or overwrites.
file_save(files, name, content) ==
    {f \in files : f.name # name} \cup {[name |-> name, content |-> content]}

\* os.path.exists(path) / os.remove(path)
path_exists(files, name) == \E f \in files : f.name = name
os_remove(files, name) == {f \in files : f.name # name}

\* The upload block with a reference that starts from None instead of from
\* the stored one.
handle_upload_from_none(up, folder, prefix, content, prev, files) ==
    IF ~(up.file # << >> /\ allowed_file(up.file))
    THEN [img |-> NULL, files |-> files, raised |-> FALSE]
    ELSE LET url == upload_to_cloudinary(folder, up.cloud) IN
         IF url # NULL
         THEN [img |-> url, files |-> files, raised |-> FALSE]
         ELSE LET local_name == prefix \o secure_filename(filename_str(up.file)) IN
              IF up.save_ok
              THEN [img |-> local_name,
                    files |-> file_save(files, local_name, content),
                    raised |-> FALSE]
              ELSE [img |-> prev, files |-> files, raised |-> TRUE]

\* The upload block every saving handler repeats for a file part:
\*   if file and file.filename and allowed_file(file.filename):
\*       url = upload_to_cloudinary(...); if url: img = url
\*       else: name = prefix + secure_filename(...); file.save(...); img = name
\* up = [file, cloud, save_ok] is the file part of the request and what the
\* two stores do with it; prev is the reference the handler started with.
\* save_ok = FALSE is file.save raising (OSError: missing directory, name too
\* long, disk full, permissions); nothing catches it, so the exception
\* leaves the handler.
handle_upload(up, folder, prefix, content, prev, files) ==
    IF ~(up.file # << >> /\ allowed_file(up.file))
    THEN [img |-> prev, files |-> files, raised |-> FALSE]
    ELSE LET url == upload_to_cloudinary(folder, up.cloud) IN
         IF url # NULL
         THEN [img |-> url, files |-> files, raised |-> FALSE]
         ELSE LET local_name == prefix \o secure_filename(filename_str(up.file)) IN
              IF up.save_ok
              THEN [img |-> local_name,
                    files |-> file_save(files, local_name, content),
                    raised |-> FALSE]
              ELSE [img |-> prev, files |-> files, raised |-> TRUE]

-----------------------------------------------------------------------------
(* Responses *)

\* A request and what it answered.  route and method name the handler, form
\* is what the request carried (the fields the handler reads).  status is
\* "render" (target: the template), "redirect" (target: the endpoint) or
\* "error" (an exception left the handler: 500).  flash is the
\* <<message, category>> the handler flashed (<< >> none).  user, receiver,
\* shown_wishes and foods_list are the template's context: a set holds the
\* row of a fetchone() (empty for None).
Resp(route, method, form, status, target, flash, user, receiver, shown_wishes, foods_list) ==
    [route |-> route, method |-> method, form |-> form, status |-> status,
     target |-> target, flash |-> flash, user |-> user, receiver |-> receiver,
     shown_wishes |-> shown_wishes, foods_list |-> foods_list]

Render(route, template, user, receiver, shown_wishes, foods_list) ==
    Resp(route, "GET", << >>, "render", template, << >>, user, receiver,
         shown_wishes, foods_list)
Redirect(route, method, form, target, flash) ==
    Resp(route, method, form, "redirect", target, flash, {}, {}, {}, << >>)
ServerError(route, form) ==
    Resp(route, "POST", form, "error", "500", << >>, {}, {}, {}, << >>)

\* The category of the message a response flashed ("" when it flashed none).
flashed(r) == IF r.flash = << >> THEN "" ELSE r.flash[2]

-----------------------------------------------------------------------------
(* init_db *)

\* The id a SERIAL column gives a row inserted into table T.  Participants
\* are never deleted, so the next sequence value of a table filled only by
\* init_db is one past the ids in use.
next_id(T) ==
    IF T = {} THEN 1
    ELSE (CHOOSE m \in {r.id : r \in T} : \A r \in T : r.id <= m) + 1

\* for name, code, gives_to in participants:
\*     INSERT ... VALUES (name, code, NULL) ON CONFLICT (name) DO NOTHING
RECURSIVE insert_participants(_, _)
insert_participants(P, i) ==
    IF i > Len(roster) THEN P
    ELSE LET r == roster[i]
             P1 == IF \E p \in P : p.name = r.name
                   THEN P
                   ELSE P \cup {[id |-> next_id(P), name |-> r.name,
                                 code |-> r.code, gives_to |-> NoUser]}
         IN insert_participants(P1, i + 1)

\* The loop below with an UPDATE that leaves out "WHERE name = %s".
RECURSIVE update_gives_to_everywhere(_, _)
update_gives_to_everywhere(P, i) ==
    IF i > Len(asignaciones) THEN P
    ELSE LET receiver_name == asignaciones[i][2]
             receiver_row == {p \in P : p.name = receiver_name}
             P1 == IF receiver_row # {}
                   THEN {[p EXCEPT !.gives_to = (CHOOSE r \in receiver_row : TRUE).id]
                            : p \in P}
                   ELSE P
         IN update_gives_to_everywhere(P1, i + 1)

\* for giver_name, receiver_name in asignaciones.items():
\*     SELECT id WHERE name = receiver_name; if found: UPDATE gives_to
RECURSIVE update_gives_to(_, _)
update_gives_to(P, i) ==
    IF i > Len(asignaciones) THEN P
    ELSE LET giver_name == asignaciones[i][1]
             receiver_name == asignaciones[i][2]
             receiver_row == {p \in P : p.name = receiver_name}
             P1 == IF receiver_row # {}
                   THEN LET receiver_id == (CHOOSE p \in receiver_row : TRUE).id IN
                        {IF p.name = giver_name
                         THEN [p EXCEPT !.gives_to = receiver_id] ELSE p : p \in P}
                   ELSE P
         IN update_gives_to(P1, i + 1)

\* init_db(): runs at every start of the process, in one transaction.
\* CREATE TABLE IF NOT EXISTS keeps the rows of existing tables.
init_db ==
    /\ participants' = update_gives_to(insert_participants(participants, 1), 1)
    /\ UNCHANGED <<wishes, foods, foods_seq, uploads, session, resp, reqs>>

\* Requests are served only by a process that has run init_db (line 198).
Serving == participants # {}

-----------------------------------------------------------------------------
(* Authentication *)

\* get_logged_user() that falls back to the first participant when the
\* session names nobody.
get_logged_user_or_first ==
    IF session = NoUser THEN {p \in participants : p.id = 1}
    ELSE {p \in participants : p.id = session}

\* get_logged_user(): the participant row of session["user_id"], as a set.
get_logged_user ==
    IF session = NoUser THEN {}
    ELSE {p \in participants : p.id = session}

\* index()
index ==
    /\ Serving
    /\ resp' = Render("index", "index.html", {}, {}, {}, << >>)
    /\ UNCHANGED <<participants, wishes, foods, foods_seq, uploads, session, reqs>>

\* login(), GET
login_GET ==
    /\ Serving
    /\ resp' = Render("login", "login.html", {}, {}, {}, << >>)
    /\ UNCHANGED <<participants, wishes, foods, foods_seq, uploads, session, reqs>>

\* login() with a SELECT that leaves out "AND code = %s".
login_POST_without_code(participant_id, code_raw, next_page) ==
    /\ Serving
    /\ LET form == <<participant_id, code_raw>>
           user == {p \in participants :
                        participant_id # NoUser /\ p.id = participant_id}
       IN IF user # {}
          THEN /\ session' = (CHOOSE p \in user : TRUE).id
               /\ resp' = Redirect("login", "POST", form,
                                   IF next_page = "gift" THEN "gift" ELSE "dashboard",
                                   << >>)
          ELSE /\ session' = session
               /\ resp' = Redirect("login", "POST", form, "login",
                                   <<"Nombre o código incorrecto. Inténtalo de nuevo.",
                                     "danger">>)
    /\ UNCHANGED <<participants, wishes, foods, foods_seq, uploads, reqs>>

\* login(), POST.  participant_id is the id the form carries (NoUser: the
\* field is missing, SQL compares with NULL), code_raw the code as typed,
\* next_page the resolved ?next= value.
login_POST(participant_id, code_raw, next_page) ==
    /\ Serving
    /\ LET code == strip(code_raw)
           form == <<participant_id, code_raw>>
           user == {p \in participants :
                        /\ participant_id # NoUser
                        /\ p.id = participant_id
                        /\ p.code = code}
       IN IF user # {}
          THEN /\ session' = (CHOOSE p \in user : TRUE).id
               /\ resp' = Redirect("login", "POST", form,
                                   IF next_page = "gift" THEN "gift" ELSE "dashboard",
                                   << >>)
          ELSE /\ session' = session
               /\ resp' = Redirect("login", "POST", form, "login",
                                   <<"Nombre o código incorrecto. Inténtalo de nuevo.",
                                     "danger">>)
    /\ UNCHANGED <<participants, wishes, foods, foods_seq, uploads, reqs>>

\* logout()
logout ==
    /\ Serving
    /\ session' = NoUser
    /\ resp' = Redirect("logout", "GET", << >>, "index", <<"Sesión cerrada.", "info">>)
    /\ UNCHANGED <<participants, wishes, foods, foods_seq, uploads, reqs>>

-----------------------------------------------------------------------------
(* Wish list *)

\* SELECT * FROM wishes WHERE participant_id = %s
select_wishes(W, pid) == {w \in W : w.participant_id = pid}

\* The row a fetchone() answered, when there is one.
the(rows) == CHOOSE r \in rows : TRUE

\* The file a request uploads is tagged with the record it is uploaded for.
wish_content(pid, slot) == "wish" \o ToString(slot) \o ":" \o ToString(pid)

\* dashboard(), POST, from `if request.method == "POST"` on: u is the logged
\* user's row, my_wishes the rows the SELECT answered, W and F the table and
\* the upload folder at the time the statements run.  Answers the new table,
\* the new folder and the response.
dashboard_save(u, my_wishes, wish1_raw, wish2_raw, up1_in, up2_in, W, F) ==
    LET wish1 == strip(wish1_raw)
        wish2 == strip(wish2_raw)
        prev1 == IF my_wishes # {} THEN the(my_wishes).wish1_img ELSE NULL
        prev2 == IF my_wishes # {} THEN the(my_wishes).wish2_img ELSE NULL
        up1 == handle_upload(up1_in, wish_folder(u.name),
                             "w1_" \o ToString(u.id) \o "_",
                             wish_content(u.id, 1), prev1, F)
        up2 == handle_upload(up2_in, wish_folder(u.name),
                             "w2_" \o ToString(u.id) \o "_",
                             wish_content(u.id, 2), prev2, up1.files)
        row == [participant_id |-> u.id, wish1 |-> wish1, wish1_img |-> up1.img,
                wish2 |-> wish2, wish2_img |-> up2.img]
        form == <<wish1_raw, wish2_raw, up1_in.file, up2_in.file>>
        saved == Redirect("dashboard", "POST", form, "dashboard",
                          <<"Tu lista de deseos se guardó correctamente.", "success">>)
    IN  IF up1.raised
        THEN [wishes |-> W, uploads |-> up1.files,
              resp |-> ServerError("dashboard", form)]
        ELSE IF up2.raised
        THEN [wishes |-> W, uploads |-> up2.files,
              resp |-> ServerError("dashboard", form)]
        ELSE IF my_wishes # {}
        THEN \* UPDATE wishes SET ... WHERE participant_id = %s
             [wishes |-> {IF w.participant_id = u.id THEN row ELSE w : w \in W},
              uploads |-> up2.files, resp |-> saved]
        ELSE IF select_wishes(W, u.id) # {}
        THEN \* INSERT: participant_id is UNIQUE, psycopg2 raises IntegrityError
             [wishes |-> W, uploads |-> up2.files,
              resp |-> ServerError("dashboard", form)]
        ELSE [wishes |-> W \cup {row}, uploads |-> up2.files, resp |-> saved]

\* dashboard(), GET
dashboard_GET ==
    /\ Serving
    /\ LET user == get_logged_user IN
       IF user = {}
       THEN resp' = Redirect("dashboard", "GET", << >>, "login", << >>)
       ELSE resp' = Render("dashboard", "dashboard.html", user, {},
                           select_wishes(wishes, the(user).id), << >>)
    /\ UNCHANGED <<participants, wishes, foods, foods_seq, uploads, session, reqs>>

\* dashboard(), POST, as one request served alone.
dashboard_POST(wish1_raw, wish2_raw, up1_in, up2_in) ==
    /\ Serving
    /\ LET user == get_logged_user IN
       IF user = {}
       THEN /\ resp' = Redirect("dashboard", "POST", << >>, "login", << >>)
            /\ UNCHANGED <<wishes, uploads>>
       ELSE LET r == dashboard_save(the(user), select_wishes(wishes, the(user).id),
                                    wish1_raw, wish2_raw, up1_in, up2_in,
                                    wishes, uploads)
            IN /\ wishes' = r.wishes
               /\ uploads' = r.uploads
               /\ resp' = r.resp
    /\ UNCHANGED <<participants, foods, foods_seq, session, reqs>>

\* The person names a food row of the model can carry.
PersonNames == {"Invitado", "Ana"} \cup {roster[i].name : i \in 1..Len(roster)}

\* The references that start with "https://": the secure_urls.  Every local
\* name starts with "w1_", "w2_" or "food_".
CloudUrls ==
    {secure_url(wish_folder(roster[i].name)) : i \in 1..Len(roster)}
    \cup {secure_url(food_folder(n)) : n \in PersonNames}

\* is_cloud_url(path): path.startswith("http://") or "https://"
is_cloud_url(path) ==
    IF path = NULL \/ path = "" THEN FALSE ELSE path \in CloudUrls

\* The loop of delete_wishes / the block of delete_food that removes a local
\* file: rm_ok = FALSE is os.remove raising OSError, which is swallowed.
remove_local(files, filename, rm_ok) ==
    IF filename # NULL /\ filename # "" /\ ~is_cloud_url(filename)
       /\ path_exists(files, filename) /\ rm_ok
    THEN os_remove(files, filename)
    ELSE files

\* delete_wishes() that removes the files and leaves out the DELETE.
delete_wishes_apply_files_only(u, row, rm1, rm2, W, F) ==
    IF row # {}
    THEN [wishes |-> W,
          uploads |-> remove_local(remove_local(F, the(row).wish1_img, rm1),
                                   the(row).wish2_img, rm2),
          resp |-> Redirect("delete_wishes", "POST", << >>, "dashboard",
                            <<"Tu lista de deseos se borró correctamente.", "info">>)]
    ELSE [wishes |-> W, uploads |-> F,
          resp |-> Redirect("delete_wishes", "POST", << >>, "dashboard",
                            <<"No tenías lista de deseos guardada.", "info">>)]

\* delete_wishes(), from the fetchone() on: row is what the SELECT answered.
delete_wishes_apply(u, row, rm1, rm2, W, F) ==
    IF row # {}
    THEN [wishes |-> {w \in W : w.participant_id # u.id},
          uploads |-> remove_local(remove_local(F, the(row).wish1_img, rm1),
                                   the(row).wish2_img, rm2),
          resp |-> Redirect("delete_wishes", "POST", << >>, "dashboard",
                            <<"Tu lista de deseos se borró correctamente.", "info">>)]
    ELSE [wishes |-> W, uploads |-> F,
          resp |-> Redirect("delete_wishes", "POST", << >>, "dashboard",
                            <<"No tenías lista de deseos guardada.", "info">>)]

\* delete_wishes(), as one request served alone.
delete_wishes(rm1, rm2) ==
    /\ Serving
    /\ LET user == get_logged_user IN
       IF user = {}
       THEN /\ resp' = Redirect("delete_wishes", "POST", << >>, "login", << >>)
            /\ UNCHANGED <<wishes, uploads>>
       ELSE LET r == delete_wishes_apply(the(user),
                                         select_wishes(wishes, the(user).id),
                                         rm1, rm2, wishes, uploads)
            IN /\ wishes' = r.wishes
               /\ uploads' = r.uploads
               /\ resp' = r.resp
    /\ UNCHANGED <<participants, foods, foods_seq, session, reqs>>

\* gift() that looks up the wishes of the caller instead of the receiver's.
gift_own_wishes ==
    /\ Serving
    /\ LET user == get_logged_user IN
       IF user = {}
       THEN resp' = Redirect("gift", "GET", << >>, "login", << >>)
       ELSE LET receiver == IF the(user).gives_to # NoUser
                            THEN {p \in participants : p.id = the(user).gives_to}
                            ELSE {}
                receiver_wishes == IF receiver # {}
                                   THEN select_wishes(wishes, the(user).id)
                                   ELSE {}
            IN resp' = Render("gift", "gift.html", user, receiver,
                              receiver_wishes, << >>)
    /\ UNCHANGED <<participants, wishes, foods, foods_seq, uploads, session, reqs>>

\* gift()
gift ==
    /\ Serving
    /\ LET user == get_logged_user IN
       IF user = {}
       THEN resp' = Redirect("gift", "GET", << >>, "login", << >>)
       ELSE LET receiver == IF the(user).gives_to # NoUser
                            THEN {p \in participants : p.id = the(user).gives_to}
                            ELSE {}
                receiver_wishes == IF receiver # {}
                                   THEN select_wishes(wishes, the(receiver).id)
                                   ELSE {}
            IN resp' = Render("gift", "gift.html", user, receiver,
                              receiver_wishes, << >>)
    /\ UNCHANGED <<participants, wishes, foods, foods_seq, uploads, session, reqs>>

-----------------------------------------------------------------------------
(* Foods *)

\* SELECT * FROM foods WHERE id = %s
select_food(T, food_id) == {f \in T : f.id = food_id}

\* SELECT * FROM foods ORDER BY id DESC
RECURSIVE order_by_id_desc(_)
order_by_id_desc(T) ==
    IF T = {} THEN << >>
    ELSE LET top == CHOOSE f \in T : \A g \in T : g.id <= f.id
         IN <<top>> \o order_by_id_desc(T \ {top})

\* The file a food request uploads is tagged with the row it is uploaded
\* for (0: the request creates no row).
food_content(food_id) == "food:" \o ToString(food_id)

\* foods(), GET
foods_GET ==
    /\ Serving
    /\ resp' = Render("foods", "foods.html", get_logged_user, {}, {},
                      order_by_id_desc(foods))
    /\ UNCHANGED <<participants, wishes, foods, foods_seq, uploads, session, reqs>>

\* foods(), POST.  The SERIAL id of the new row is the next sequence value.
foods_POST(person_raw, title_raw, description_raw, up) ==
    /\ Serving
    /\ LET user == get_logged_user
           stripped == strip(person_raw)
           title == strip(title_raw)
           description == strip(description_raw)
           person_name == IF stripped # "" THEN stripped
                          ELSE IF user # {} THEN the(user).name ELSE "Invitado"
           new_id == foods_seq + 1
           form == <<person_raw, title_raw, description_raw, up.file>>
           u == handle_upload(up, food_folder(person_name),
                              "food_" \o person_name \o "_",
                              food_content(IF title # "" THEN new_id ELSE 0),
                              NULL, uploads)
       IN  IF u.raised
           THEN /\ resp' = ServerError("foods", form)
                /\ UNCHANGED <<foods, foods_seq, uploads>>
           ELSE /\ uploads' = u.files
                /\ IF title # ""
                   THEN /\ foods' = foods \cup
                              {[id |-> new_id, person_name |-> person_name,
                                title |-> title, description |-> description,
                                image_filename |-> u.img]}
                        /\ foods_seq' = new_id
                        /\ resp' = Redirect("foods", "POST", form, "foods",
                               <<"Comida registrada para la cena de Navidad.", "success">>)
                   ELSE /\ resp' = Redirect("foods", "POST", form, "foods",
                               <<"El título de la comida es obligatorio.", "danger">>)
                        /\ UNCHANGED <<foods, foods_seq>>
    /\ UNCHANGED <<participants, wishes, session, reqs>>

\* edit_food(food_id), GET
edit_food_GET(food_id) ==
    /\ Serving
    /\ LET food == select_food(foods, food_id) IN
       IF food = {}
       THEN resp' = Redirect("edit_food", "GET", <<food_id>>, "foods",
                             <<"Platillo no encontrado.", "danger">>)
       ELSE resp' = Resp("edit_food", "GET", <<food_id>>, "render",
                         "foods_edit.html", << >>, {}, {}, {}, <<the(food)>>)
    /\ UNCHANGED <<participants, wishes, foods, foods_seq, uploads, session, reqs>>

\* edit_food(food_id), POST
edit_food_POST(food_id, person_raw, title_raw, description_raw, up) ==
    /\ Serving
    /\ LET food == select_food(foods, food_id)
           form == <<food_id, person_raw, title_raw, description_raw, up.file>>
       IN
       IF food = {}
       THEN /\ resp' = Redirect("edit_food", "POST", form, "foods",
                                <<"Platillo no encontrado.", "danger">>)
            /\ UNCHANGED <<foods, uploads>>
       ELSE LET stripped == strip(person_raw)
                person_name == IF stripped # "" THEN stripped
                               ELSE the(food).person_name
                title == strip(title_raw)
                description == strip(description_raw)
                u == handle_upload(up, food_folder(person_name),
                                   "food_" \o person_name \o "_",
                                   food_content(food_id),
                                   the(food).image_filename, uploads)
            IN  IF title = ""
                THEN /\ resp' = Redirect("edit_food", "POST", form, "edit_food",
                                    <<"El nombre del platillo es obligatorio.", "danger">>)
                     /\ UNCHANGED <<foods, uploads>>
                ELSE IF u.raised
                THEN /\ resp' = ServerError("edit_food", form)
                     /\ UNCHANGED <<foods, uploads>>
                ELSE /\ uploads' = u.files
                     /\ foods' = {IF f.id = food_id
                                  THEN [id |-> food_id, person_name |-> person_name,
                                        title |-> title, description |-> description,
                                        image_filename |-> u.img]
                                  ELSE f : f \in foods}
                     /\ resp' = Redirect("edit_food", "POST", form, "foods",
                                    <<"Platillo actualizado correctamente.", "success">>)
    /\ UNCHANGED <<participants, wishes, foods_seq, session, reqs>>

\* delete_food(food_id)
delete_food(food_id, rm_ok) ==
    /\ Serving
    /\ LET row == select_food(foods, food_id) IN
       /\ uploads' = IF row # {}
                     THEN remove_local(uploads, the(row).image_filename, rm_ok)
                     ELSE uploads
       /\ foods' = {f \in foods : f.id # food_id}
       /\ resp' = Redirect("delete_food", "POST", <<food_id>>, "foods",
                           <<"Platillo eliminado.", "info">>)
    /\ UNCHANGED <<participants, wishes, foods_seq, session, reqs>>

-----------------------------------------------------------------------------
(* Two wish-list requests of one participant, statement by statement.  A    *)
(* request runs get_logged_user and its SELECT, then (later) its file       *)
(* operations and its one writing statement with the commit.  PostgreSQL    *)
(* at READ COMMITTED makes the write of a second transaction wait for the   *)
(* commit of the first, so write and commit are one step.                   *)

\* How many wish-list requests are in flight at once.
NumRequests == 3
Requests == 1..NumRequests

\* A request: where it is (pc), the handler (kind), what it carries and what
\* the file system will answer it (form), the rows its SELECT answered, its
\* response, its place among the answered requests (order), and what its
\* writing statement did: effect "wrote" (INSERT or UPDATE of row), "deleted"
\* or "none" (no statement ran, or it matched no row, or it failed).
IdleReq == [pc |-> "idle", kind |-> "", user |-> {}, rows |-> {}, form |-> {},
            resp |-> {}, order |-> 0, effect |-> "none", row |-> {}]

\* How many requests have answered.
answered == Cardinality({i \in Requests : reqs[i].pc = "done"})

\* dashboard() POST / delete_wishes(), up to and including the SELECT.
request_select(i, kind, form) ==
    /\ Serving
    /\ reqs[i].pc = "idle"
    /\ LET user == get_logged_user IN
       IF user = {}
       THEN reqs' = [reqs EXCEPT ![i] =
                        [IdleReq EXCEPT !.pc = "done", !.kind = kind,
                                        !.form = {form},
                                        !.resp = {Redirect(kind, "POST", << >>,
                                                           "login", << >>)},
                                        !.order = answered + 1]]
       ELSE reqs' = [reqs EXCEPT ![i] =
                        [IdleReq EXCEPT !.pc = "selected", !.kind = kind,
                                        !.user = user,
                                        !.rows = select_wishes(wishes, the(user).id),
                                        !.form = {form}]]
    /\ UNCHANGED <<participants, wishes, foods, foods_seq, uploads, session, resp>>

\* The rest of the handler: uploads or removals, the writing statement, the
\* commit and the response.
request_write(i) ==
    /\ reqs[i].pc = "selected"
    /\ LET q == reqs[i]
           f == the(q.form)
           uid == the(q.user).id
           r == IF q.kind = "dashboard"
                THEN dashboard_save(the(q.user), q.rows, f.wish1_raw, f.wish2_raw,
                                    f.up1, f.up2, wishes, uploads)
                ELSE delete_wishes_apply(the(q.user), q.rows, f.rm1, f.rm2,
                                         wishes, uploads)
           effect == IF q.kind = "dashboard"
                     THEN IF r.resp.status # "error" /\ select_wishes(r.wishes, uid) # {}
                          THEN "wrote" ELSE "none"
                     ELSE IF q.rows # {} /\ select_wishes(wishes, uid) # {}
                          THEN "deleted" ELSE "none"
       IN /\ wishes' = r.wishes
          /\ uploads' = r.uploads
          /\ reqs' = [reqs EXCEPT ![i] =
                        [q EXCEPT !.pc = "done", !.resp = {r.resp},
                                  !.order = answered + 1, !.effect = effect,
                                  !.row = IF effect = "wrote"
                                          THEN select_wishes(r.wishes, uid) ELSE {}]]
    /\ UNCHANGED <<participants, foods, foods_seq, session, resp>>

-----------------------------------------------------------------------------
(* Inputs of the requests *)

\* How many participants log in, how many food rows are ever created.
NumActors == 2
MaxFoods == 2

\* asignaciones[giver_name]
receiver_of(name) ==
    asignaciones[CHOOSE i \in 1..Len(asignaciones) : asignaciones[i][1] = name][2]

\* The participants who log in: the first NumActors on the chain of gifts
\* that starts at Miguel (Miguel, Brenda, Alejandro, ...).
RECURSIVE chain(_, _)
chain(name, n) ==
    IF n = 0 THEN {} ELSE {name} \cup chain(receiver_of(name), n - 1)

ActorNames == chain(roster[1].name, NumActors)
ActorIds == {p.id : p \in {q \in participants : q.name \in ActorNames}}

ActorCodes ==
    {roster[i].code : i \in {j \in 1..Len(roster) : roster[j].name \in ActorNames}}

\* An id no participant has.
UnknownId == Len(roster) + 1

\* Miguel, as the one participant of the specifications that follow a
\* single browser.
MiguelId == {p.id : p \in {q \in participants : q.name = roster[1].name}}

NextPages == {"gift", "dashboard"}

\* Codes as typed: right, padded with blanks, another participant's, wrong.
TypedCodes == {"M123", " M123 ", "BR88", "mal"}

\* File parts and what the two stores do with them.
NoUpload    == [file |-> << >>,                cloud |-> "fail", save_ok |-> TRUE]
BadUpload   == [file |-> <<"nota", "TXT">>,    cloud |-> "fail", save_ok |-> TRUE]
CloudUpload == [file |-> <<"mi foto", "PNG">>, cloud |-> "ok",   save_ok |-> TRUE]
LocalUpload == [file |-> <<"mi foto", "PNG">>, cloud |-> "fail", save_ok |-> TRUE]
LostUpload  == [file |-> <<"mi foto", "PNG">>, cloud |-> "fail", save_ok |-> FALSE]
UploadInputs == {NoUpload, BadUpload, CloudUpload, LocalUpload, LostUpload}

FoodIds == 1..MaxFoods

-----------------------------------------------------------------------------
(* Specifications *)

\* A fresh database and upload folder, a browser without a cookie; the
\* process has not started.
Init ==
    /\ participants = {}
    /\ wishes = {}
    /\ foods = {}
    /\ foods_seq = 0
    /\ uploads = {}
    /\ session = NoUser
    /\ resp = Resp("", "", << >>, "", "", << >>, {}, {}, {}, << >>)
    /\ reqs = [i \in Requests |-> IdleReq]

\* Wish lists and the gift page of NumActors participants who share a
\* browser, each request served alone; files are stored locally.
Next ==
    \/ init_db
    \/ \E pid \in ActorIds, code \in ActorCodes, np \in NextPages :
           login_POST(pid, code, np)
    \/ logout
    \/ dashboard_GET
    \/ \E w1 \in {"", " libro "}, u1 \in {NoUpload, LocalUpload},
          u2 \in {NoUpload, LocalUpload} :
           dashboard_POST(w1, " gorro ", u1, u2)
    \/ delete_wishes(TRUE, TRUE)
    \/ gift

Spec == Init /\ [][Next]_vars

\* Logging in and out, with every kind of (participant, code) pair.
NextAuth ==
    \/ init_db
    \/ index
    \/ login_GET
    \/ \E pid \in ActorIds \cup {UnknownId, NoUser}, code \in TypedCodes,
          np \in NextPages :
           login_POST(pid, code, np)
    \/ logout
    \/ dashboard_GET
    \/ dashboard_POST(" libro ", " gorro ", NoUpload, NoUpload)
    \/ gift

SpecAuth == Init /\ [][NextAuth]_vars

\* The food registry, used by Miguel's browser, logged in or not; at most
\* MaxFoods rows are ever created.
NextFoods ==
    \/ init_db
    \/ \E pid \in MiguelId : login_POST(pid, "M123", "dashboard")
    \/ logout
    \/ foods_GET
    \/ \E person \in {"", " Ana "}, title \in {"", " pavo "}, up \in UploadInputs :
           /\ foods_seq < MaxFoods
           /\ foods_POST(person, title, "", up)
    \/ \E food_id \in FoodIds : edit_food_GET(food_id)
    \/ \E food_id \in FoodIds, title \in {"", " pavo "},
          up \in {NoUpload, LocalUpload} :
           edit_food_POST(food_id, "", title, "", up)
    \/ \E food_id \in FoodIds : delete_food(food_id, TRUE)

SpecFoods == Init /\ [][NextFoods]_vars

\* The handlers that store an image, used by Miguel's browser, with every
\* outcome of an upload; one food row.
NextImages ==
    \/ init_db
    \/ \E pid \in MiguelId : login_POST(pid, "M123", "dashboard")
    \/ \E u1 \in UploadInputs, u2 \in UploadInputs :
           dashboard_POST(" libro ", " gorro ", u1, u2)
    \/ \E rm1 \in BOOLEAN, rm2 \in BOOLEAN : delete_wishes(rm1, rm2)
    \/ \E up \in UploadInputs :
           /\ foods = {}
           /\ foods_seq < MaxFoods
           /\ foods_POST("", " pavo ", "", up)
    \/ \E food_id \in FoodIds, title \in {"", " pavo "}, up \in UploadInputs :
           edit_food_POST(food_id, "", title, "", up)

SpecImages == Init /\ [][NextImages]_vars

\* Wish-list requests of Miguel in flight together, statement by statement.
RaceForms ==
    { [wish1_raw |-> " libro ", wish2_raw |-> " gorro ", up1 |-> NoUpload,
       up2 |-> NoUpload, rm1 |-> TRUE, rm2 |-> TRUE],
      [wish1_raw |-> "", wish2_raw |-> " gorro ", up1 |-> LocalUpload,
       up2 |-> NoUpload, rm1 |-> TRUE, rm2 |-> TRUE] }

NextRace ==
    \/ init_db
    \/ \E pid \in MiguelId : login_POST(pid, "M123", "dashboard")
    \/ \E i \in Requests, kind \in {"dashboard", "delete_wishes"}, form \in RaceForms :
           request_select(i, kind, form)
    \/ \E i \in Requests : request_write(i)

SpecRace == Init /\ [][NextRace]_vars

-----------------------------------------------------------------------------
(* Properties *)

\* The last request was a login POST.
LoginAnswered == resp'.route = "login" /\ resp'.method = "POST"

roster_names == {roster[i].name : i \in 1..Len(roster)}
row_of(name) == {p \in participants : p.name = name}

\* C2: once init_db has run, gives_to is a fixed permutation of the seeded
\* participants: there is exactly one row per roster name, with the roster's
\* code; every row gives to exactly one row, another one, the one
\* asignaciones names; no two rows give to the same row; and no later step
\* (a request, init_db run again) changes the table.
C2_FixedPermutation ==
    /\ [](Serving =>
            /\ {p.name : p \in participants} = roster_names
            /\ Cardinality(participants) = Len(roster)
            /\ \A i \in 1..Len(roster) :
                  \A p \in row_of(roster[i].name) : p.code = roster[i].code
            /\ \A p \in participants :
                  /\ p.gives_to # p.id
                  /\ \E q \in participants :
                        q.id = p.gives_to /\ q.name = receiver_of(p.name)
            /\ \A p, q \in participants : p.gives_to = q.gives_to => p = q)
    /\ [][Serving => participants' = participants]_vars

\* The table is seeded and both participants of the browser have saved.
C2_Witness ==
    /\ Serving
    /\ Cardinality(wishes) = NumActors
    /\ \E p \in participants : p.name = "Miguel" /\ \E q \in participants :
          q.name = "Brenda" /\ p.gives_to = q.id

\* A file part the upload block accepts.
valid_upload(file) == file # << >> /\ allowed_file(file)

\* The references an accepted file part can be stored under.
new_refs(folder, prefix, file) ==
    {secure_url(folder), prefix \o secure_filename(filename_str(file))}

\* The last request was a wish-list save of the logged user / an edit of an
\* existing or missing food row.
DashboardPosted ==
    resp'.route = "dashboard" /\ resp'.method = "POST" /\ resp'.form # << >>
EditFoodPosted == resp'.route = "edit_food" /\ resp'.method = "POST"

\* C3: a stored image reference is replaced only by a new valid upload for
\* its own slot.  A dashboard POST never removes the caller's row; a slot
\* without a file, or with a file of a disallowed extension, keeps the
\* reference it had (none for a new row), whatever happens to the other
\* slot; and when the save is carried out, a slot with a valid upload holds
\* a reference of that upload (its secure_url or its local name).  The same
\* for image_filename on edit_food.
C3_ImageReplacedOnlyByUpload ==
    [][ /\ DashboardPosted =>
             LET u == the(get_logged_user)
                 old == select_wishes(wishes, u.id)
                 new == select_wishes(wishes', u.id)
                 file1 == resp'.form[3]
                 file2 == resp'.form[4]
                 old1 == IF old # {} THEN the(old).wish1_img ELSE NULL
                 old2 == IF old # {} THEN the(old).wish2_img ELSE NULL
             IN /\ old # {} => new # {}
                /\ new # {} =>
                     /\ ~valid_upload(file1) => the(new).wish1_img = old1
                     /\ ~valid_upload(file2) => the(new).wish2_img = old2
                /\ flashed(resp') = "success" =>
                     /\ new # {}
                     /\ valid_upload(file1) =>
                          the(new).wish1_img \in
                              new_refs(wish_folder(u.name),
                                       "w1_" \o ToString(u.id) \o "_", file1)
                     /\ valid_upload(file2) =>
                          the(new).wish2_img \in
                              new_refs(wish_folder(u.name),
                                       "w2_" \o ToString(u.id) \o "_", file2)
        /\ EditFoodPosted =>
             LET old == select_food(foods, resp'.form[1])
                 new == select_food(foods', resp'.form[1])
                 file == resp'.form[5]
             IN /\ old # {} => new # {}
                /\ old = {} => new = {}
                /\ (old # {} /\ ~valid_upload(file)) =>
                     the(new).image_filename = the(old).image_filename
                /\ (old # {} /\ flashed(resp') = "success" /\ valid_upload(file)) =>
                     the(new).image_filename \in
                         new_refs(food_folder(the(new).person_name),
                                  "food_" \o the(new).person_name \o "_", file)
      ]_vars

\* A save with a valid upload for slot 1 and none for slot 2 has left the
\* stored reference of slot 2 in place.
C3_Witness ==
    /\ resp.route = "dashboard"
    /\ resp.method = "POST"
    /\ flashed(resp) = "success"
    /\ valid_upload(resp.form[3])
    /\ resp.form[4] = << >>
    /\ \E w \in select_wishes(wishes, session) :
          w.wish1_img # NULL /\ w.wish2_img # NULL

\* C4: after a logged-in participant's delete_wishes that participant has no
\* wish row; a wish row appears only by a dashboard POST of its participant;
\* and a dashboard GET shows exactly the caller's current row.  So a
\* dashboard GET after the delete, with no save in between, shows no wishes.
C4_DeleteRemovesRow ==
    [][ /\ (resp'.route = "delete_wishes" /\ session # NoUser) =>
              /\ select_wishes(wishes', session) = {}
              /\ resp'.target = "dashboard"
        /\ \A p \in participants :
              (select_wishes(wishes, p.id) = {} /\ select_wishes(wishes', p.id) # {})
                  => (session = p.id /\ resp'.route = "dashboard"
                      /\ resp'.method = "POST")
        /\ (resp'.route = "dashboard" /\ resp'.method = "GET" /\ session # NoUser) =>
              /\ resp'.status = "render"
              /\ resp'.user = {p \in participants : p.id = session}
              /\ resp'.shown_wishes = select_wishes(wishes, session)
      ]_vars

\* A delete has removed the row of the logged-in participant.
C4_Witness ==
    /\ resp.route = "delete_wishes"
    /\ resp.flash = <<"Tu lista de deseos se borró correctamente.", "info">>
    /\ session # NoUser
    /\ select_wishes(wishes, session) = {}

\* C7: the gift request changes no row, no file and not the session, and it
\* shows the caller, the participant the caller's gives_to names (Brenda
\* for Miguel) and that participant's current wish row, if any; a caller
\* without an assignment is shown no receiver and no wishes.
C7_GiftReadOnly ==
    [][ resp'.route = "gift" =>
          /\ UNCHANGED <<participants, wishes, foods, foods_seq, uploads, session>>
          /\ session # NoUser =>
               LET u == the({p \in participants : p.id = session}) IN
               /\ resp'.status = "render"
               /\ resp'.user = {u}
               /\ resp'.receiver = {p \in participants :
                                       u.gives_to # NoUser /\ p.id = u.gives_to}
               /\ resp'.shown_wishes = {w \in wishes :
                                           u.gives_to # NoUser
                                           /\ w.participant_id = u.gives_to}
               /\ u.name = "Miguel" => \E r \in resp'.receiver : r.name = "Brenda"
          /\ session = NoUser => (resp'.status = "redirect" /\ resp'.target = "login")
      ]_vars

\* Miguel is shown Brenda and the wish list she saved.
C7_Witness ==
    /\ resp.route = "gift"
    /\ \E u \in resp.user : u.name = "Miguel"
    /\ \E r \in resp.receiver : r.name = "Brenda"
    /\ \E w \in resp.shown_wishes : w.wish1 = "libro"

\* C10: a wish row is changed only by a dashboard POST or a delete_wishes
\* whose session names its participant, so a request without a session
\* changes none; and the row a save leaves holds the participant's id and
\* the texts that request submitted.
C10_OwnerOnly ==
    [][ \A p \in participants :
          select_wishes(wishes', p.id) # select_wishes(wishes, p.id) =>
             /\ session = p.id
             /\ session' = p.id
             /\ resp'.method = "POST"
             /\ resp'.route \in {"dashboard", "delete_wishes"}
             /\ resp'.route = "delete_wishes" => select_wishes(wishes', p.id) = {}
             /\ resp'.route = "dashboard" =>
                  \E w \in wishes' :
                     /\ select_wishes(wishes', p.id) = {w}
                     /\ w.wish1 = strip(resp'.form[1])
                     /\ w.wish2 = strip(resp'.form[2])
      ]_vars

\* Both participants hold a row and the last request saved one of them.
C10_Witness ==
    /\ Cardinality(wishes) = NumActors
    /\ resp.route = "dashboard"
    /\ flashed(resp) = "success"
    /\ \E w \in wishes : w.participant_id # session /\ w.wish1 = "libro"
    /\ \E w \in wishes : w.participant_id = session /\ w.wish1 = ""

\* C5: a POST to /comidas whose title is empty or blank inserts no row,
\* leaves the food rows as they were and flashes a validation error, with
\* or without a file part, logged in or not.
C5_EmptyTitleRejected ==
    [][ (resp'.route = "foods" /\ resp'.method = "POST"
         /\ strip(resp'.form[2]) = "") =>
            /\ foods' = foods
            /\ foods_seq' = foods_seq
            /\ resp'.status = "redirect"
            /\ flashed(resp') = "danger" ]_vars

\* C6: no request that uploads ends in an unhandled error: a wish-list save,
\* a food creation and a food edit always answer, also when neither store
\* takes the file.
C6_UploadNeverRaises == resp.status # "error"

\* A reference that names a file of the upload folder.
local_ref(ref) == ref # NULL /\ ref # "" /\ ~is_cloud_url(ref)

\* C8: local names avoid collisions: no two food rows share a local path,
\* and every local reference a row holds names an existing file that holds
\* the upload made for that row (for that slot of that participant).
C8_LocalFilesOwned ==
    /\ \A f, g \in foods :
          (f # g /\ local_ref(f.image_filename)) =>
              f.image_filename # g.image_filename
    /\ \A f \in foods :
          local_ref(f.image_filename) =>
              [name |-> f.image_filename, content |-> food_content(f.id)] \in uploads
    /\ \A w \in wishes :
          /\ local_ref(w.wish1_img) =>
                [name |-> w.wish1_img,
                 content |-> wish_content(w.participant_id, 1)] \in uploads
          /\ local_ref(w.wish2_img) =>
                [name |-> w.wish2_img,
                 content |-> wish_content(w.participant_id, 2)] \in uploads

\* The requests whose writing statement changed the table, and the last of
\* them.
writers == {i \in Requests : reqs[i].effect # "none"}
last_writer == CHOOSE i \in writers : \A j \in writers : reqs[j].order <= reqs[i].order

\* C9: interleaved wish-list requests of one participant resolve as last
\* write wins: every request answers without an error, the participant has
\* at most one row, and the table holds what the last applied write left
\* (its row, or no row after a delete).
C9_LastWriteWins ==
    /\ \A i \in Requests :
          reqs[i].pc = "done" => the(reqs[i].resp).status # "error"
    /\ \A p \in participants : Cardinality(select_wishes(wishes, p.id)) <= 1
    /\ writers # {} =>
          select_wishes(wishes, the(reqs[last_writer].user).id)
              = reqs[last_writer].row

\* The parts of C9 that do not speak of errors.
C9_OneRowLastWrite ==
    /\ \A p \in participants : Cardinality(select_wishes(wishes, p.id)) <= 1
    /\ writers # {} =>
          select_wishes(wishes, the(reqs[last_writer].user).id)
              = reqs[last_writer].row

====
